---- MODULE Spec2Model ----
(***************************************************************************)
(* Model of the gap-detection pipeline of pikl-kb-processor:               *)
(*   anonymize.py          PIIAnonymizer                                   *)
(*   analyze/matcher.py    KBMatcher                                       *)
(*   analyze/gaps.py       GapAnalyzer                                     *)
(*   analyze/extractor.py  QuestionExtractor                               *)
(*                                                                         *)
(* Text is a sequence of tokens.  A token is a record [k, n]: k names the  *)
(* lexical class of a substring and n tells members of the class apart.    *)
(* Every class stands for a concrete string, and the stage operators       *)
(* below say which regular expression of anonymize.py matches it:          *)
(*   email    n   alice@mail.com, bob@mail.com                             *)
(*   emailph  n   customer<n>@example.com                                  *)
(*   policy   n   GLDX-02HQ-01, ABC-1234-XY-99                             *)
(*   polph    n   POL-<n as 4 digits>                                      *)
(*   polph_pc 0   POL-[REDACTED_POSTCODE]                                  *)
(*   phone    0   555-123-4567         card     0   1234-5678-9012-3456    *)
(*   ssn      0   123-45-6789          address  0   12 Main Street         *)
(*   postcode 0   SW1 1AA              license  0   A1234567               *)
(*   date     0   01/15/80             date4    0   01/15/1980             *)
(*   date4_pc 0   01/15/[REDACTED_POSTCODE]                                *)
(*   year     0   2024                 word     0   hello                  *)
(*   name     n   "Mr John", "Mr Jane" (title + name not in the rotation)  *)
(*   nameph   n   "Mr " + placeholder_names[n]                             *)
(*   red_*    0   the [REDACTED_*] tokens                                  *)
(* Tokens are separated by text that no pattern matches (" , "), so a      *)
(* match never spans two tokens.                                           *)
(*                                                                         *)
(* Scores are exact integers: thousandths for similarity, urgency and      *)
(* thresholds, ten-thousandths for a priority.                             *)
(***************************************************************************)
EXTENDS Integers, Sequences, FiniteSets, TLC

VARIABLES
    \* PIIAnonymizer
    name_map, email_map, policy_map,
    name_counter, email_counter, policy_counter,
    text_in, text_out, call, ncalls,
    known,      \* history: the originals the maps held before the last call
    rendered    \* history: original -> the text first returned for it

anonVars == <<name_map, email_map, policy_map,
              name_counter, email_counter, policy_counter,
              text_in, text_out, call, ncalls, known, rendered>>

VARIABLES
    \* KBMatcher
    articles, article_embeddings, similarity_threshold,
    m_op,     \* the last call: "none", "index", "match", "top"
    m_in,     \* its argument (the article list, the question list)
    m_ret     \* what the caller got: [raised, value]

matcherVars == <<articles, article_embeddings, similarity_threshold, m_op, m_in, m_ret>>

VARIABLES
    \* GapAnalyzer
    g_threshold,            \* self.similarity_threshold
    g_matches, g_answers,   \* the arguments of identify_gaps
    g_op, g_ret             \* "none" or "identify_gaps", and what the caller got

gapVars == <<g_threshold, g_matches, g_answers, g_op, g_ret>>

VARIABLES
    \* QuestionExtractor
    x_anonymize_enabled,    \* self.anonymize_enabled
    x_anonymizer,           \* self.anonymizer: its maps and counters
    x_in,                   \* the transcript or email of the last call
    x_prompt,               \* the prompt of the last call
    x_responses,            \* the replies of the collaborator in the last call
    x_op,                   \* "none", "transcript" or "email"
    x_ret                   \* what the last call returned

extractorVars ==
    <<x_anonymize_enabled, x_anonymizer, x_in, x_prompt, x_responses, x_op, x_ret>>

VARIABLES
    \* Runs of the process command, each with the PIIAnonymizer of its extractor
    instances,   \* anonymizer -> its maps and counters
    w_pc,        \* run -> where it is in a replacement function
    w_match,     \* run -> the match being replaced
    w_done,      \* run -> replacements finished
    stores       \* history: anonymizer -> the map entries written, in order

workerVars == <<instances, w_pc, w_match, w_done, stores>>

vars == <<anonVars, matcherVars, gapVars, extractorVars, workerVars>>

(***************************************************************************)
(* Bounds                                                                  *)
(***************************************************************************)
MaxLen == 2        \* tokens in one input text
MaxCalls == 2      \* anonymize_text calls on one instance

\* The sequences over S of length at most n.
RECURSIVE SeqsUpTo(_, _)
SeqsUpTo(S, n) ==
    IF n = 0 THEN {<<>>}
    ELSE LET shorter == SeqsUpTo(S, n - 1)
         IN  shorter \cup {Append(s, x) : s \in {z \in shorter : Len(z) = n - 1}, x \in S}

Tok(k, n) == [k |-> k, n |-> n]

EmptyMap == [x \in {} |-> Tok("word", 0)]

\* The size of placeholder_names.
NumPlaceholderNames == 10

\* placeholder_names; Python counts its positions from 0.
placeholder_names ==
    <<"Smith", "Johnson", "Williams", "Brown", "Jones",
      "Garcia", "Miller", "Davis", "Rodriguez", "Martinez">>

\* The surname a nameph token carries.
Surname(position) == placeholder_names[position + 1]

(***************************************************************************)
(* PIIAnonymizer: the patterns, as the token classes each one matches.     *)
(***************************************************************************)
\* patterns["email"]: raw addresses, and customer<n>@example.com as well.
MatchesEmail(t) == t.k \in {"email", "emailph"}

\* patterns["policy_ref"]: POL-0001 has too few characters after the dash.
MatchesPolicy(t) == t.k = "policy"

\* title_pattern: a title followed by a capitalised word.
MatchesName(t) == t.k \in {"name", "nameph"}

\* f"customer{self.email_counter}@example.com"
EmailPlaceholder(c) == Tok("emailph", c)

\* f"POL-{self.policy_counter:04d}"
PolicyPlaceholder(c) == Tok("polph", c)

\* Mutant: the rotation starts at the first surname of the list.
NamePlaceholderFromFirst(c) == (c - 1) % NumPlaceholderNames

\* placeholder_names[self.name_counter % len(placeholder_names)]
NamePlaceholder(c) == c % NumPlaceholderNames

\* Mutant: the membership test dropped, a seen address is assigned again.
replace_email_no_lookup(email, m, c) ==
    [map |-> (email :> EmailPlaceholder(c + 1)) @@ m, counter |-> c + 1]

replace_email(email, m, c) ==
    IF email \notin DOMAIN m
    THEN [map |-> m @@ (email :> EmailPlaceholder(c + 1)), counter |-> c + 1]
    ELSE [map |-> m, counter |-> c]

replace_policy(policy, m, c) ==
    IF policy \notin DOMAIN m
    THEN [map |-> m @@ (policy :> PolicyPlaceholder(c + 1)), counter |-> c + 1]
    ELSE [map |-> m, counter |-> c]

\* name_map maps the captured name to a surname, kept here as its position
\* in placeholder_names.
replace_name(name, m, c) ==
    IF name \notin DOMAIN m
    THEN [map |-> m @@ (name :> NamePlaceholder(c + 1)), counter |-> c + 1]
    ELSE [map |-> m, counter |-> c]

\* re.sub(pattern, repl, text) with a replacement function that updates a
\* map: matches are replaced left to right.
RECURSIVE anonymize_emails(_, _, _)
anonymize_emails(text, m, c) ==
    IF text = <<>> THEN [text |-> <<>>, map |-> m, counter |-> c]
    ELSE LET t == Head(text) IN
         IF MatchesEmail(t)
         THEN LET r == replace_email(t, m, c)
                  rest == anonymize_emails(Tail(text), r.map, r.counter)
              IN  [rest EXCEPT !.text = <<r.map[t]>> \o @]
         ELSE LET rest == anonymize_emails(Tail(text), m, c)
              IN  [rest EXCEPT !.text = <<t>> \o @]

RECURSIVE anonymize_policies(_, _, _)
anonymize_policies(text, m, c) ==
    IF text = <<>> THEN [text |-> <<>>, map |-> m, counter |-> c]
    ELSE LET t == Head(text) IN
         IF MatchesPolicy(t)
         THEN LET r == replace_policy(t, m, c)
                  rest == anonymize_policies(Tail(text), r.map, r.counter)
              IN  [rest EXCEPT !.text = <<r.map[t]>> \o @]
         ELSE LET rest == anonymize_policies(Tail(text), m, c)
              IN  [rest EXCEPT !.text = <<t>> \o @]

\* The title is kept and the name replaced: f"{title} {self.name_map[name]}".
RECURSIVE anonymize_names(_, _, _)
anonymize_names(text, m, c) ==
    IF text = <<>> THEN [text |-> <<>>, map |-> m, counter |-> c]
    ELSE LET t == Head(text) IN
         IF MatchesName(t)
         THEN LET r == replace_name(t, m, c)
                  rest == anonymize_names(Tail(text), r.map, r.counter)
              IN  [rest EXCEPT !.text = <<Tok("nameph", r.map[t])>> \o @]
         ELSE LET rest == anonymize_names(Tail(text), m, c)
              IN  [rest EXCEPT !.text = <<t>> \o @]

\* The stages that write a constant, each as the rewriting of one token.
phone_sub(t) == IF t.k = "phone" THEN Tok("red_phone", 0) ELSE t

credit_card_sub(t) == IF t.k = "card" THEN Tok("red_card", 0) ELSE t

ssn_sub(t) == IF t.k = "ssn" THEN Tok("red_id", 0) ELSE t

address_sub(t) == IF t.k = "address" THEN Tok("red_address", 0) ELSE t

\* patterns["postal_code"] has the alternative \b\d{4}\b: it matches a bare
\* year, the year of a date and the four digits of POL-0001.
postal_code_sub(t) ==
    CASE t.k \in {"postcode", "year"} -> Tok("red_postcode", 0)
      [] t.k = "polph" /\ t.n < 10000 -> Tok("polph_pc", 0)
      [] t.k = "date4" -> Tok("date4_pc", 0)
      [] OTHER -> t

license_sub(t) == IF t.k = "license" THEN Tok("red_license", 0) ELSE t

\* replace_date keeps a match of ^\d{4}$; patterns["date"] never matches one.
anonymize_dates(t) ==
    CASE t.k \in {"date", "date4"} -> Tok("red_date", 0)
      [] OTHER -> t

MapText(Op(_), text) == [i \in 1..Len(text) |-> Op(text[i])]

\* The state of an instance, as a record.
AnonState(nm, em, pm, nc, ec, pc) ==
    [name_map |-> nm, email_map |-> em, policy_map |-> pm,
     name_counter |-> nc, email_counter |-> ec, policy_counter |-> pc]

\* Stages 3 to 9 of anonymize_text on one token, in the order of the code:
\* phones, cards, SSN/TFN, addresses, postal codes, licences, dates.
constant_stages(t) ==
    anonymize_dates(license_sub(postal_code_sub(address_sub(ssn_sub(
        credit_card_sub(phone_sub(t)))))))

\* Mutant: every call starts from empty maps and counters.
anonymize_text_fresh(text, an) ==
    IF text = <<>> THEN [text |-> text, an |-> AnonState(EmptyMap, EmptyMap, EmptyMap, 0, 0, 0)]
    ELSE
    LET s1 == anonymize_emails(text, EmptyMap, 0)
        s2 == anonymize_policies(s1.text, EmptyMap, 0)
        s9 == MapText(constant_stages, s2.text)
        s10 == anonymize_names(s9, EmptyMap, 0)
    IN  [text |-> s10.text,
         an |-> AnonState(s10.map, s1.map, s2.map, s10.counter, s1.counter, s2.counter)]

\* anonymize_text: the text returned and the state of the instance it leaves.
anonymize_text(text, an) ==
    IF text = <<>> THEN [text |-> text, an |-> an]
    ELSE
    LET s1 == anonymize_emails(text, an.email_map, an.email_counter)
        s2 == anonymize_policies(s1.text, an.policy_map, an.policy_counter)
        s9 == MapText(constant_stages, s2.text)
        s10 == anonymize_names(s9, an.name_map, an.name_counter)
    IN  [text |-> s10.text,
         an |-> AnonState(s10.map, s1.map, s2.map, s10.counter, s1.counter, s2.counter)]

\* get_stats
get_stats(an) ==
    [names_anonymized |-> Cardinality(DOMAIN an.name_map),
     emails_anonymized |-> Cardinality(DOMAIN an.email_map),
     policies_anonymized |-> Cardinality(DOMAIN an.policy_map)]

(***************************************************************************)
(* KBMatcher                                                               *)
(***************************************************************************)
\* An embedding is a vector of integers; every vector used has an integer
\* norm, so that a cosine is an exact number of thousandths.

\* A float that is not a number (0/0 in numpy).
NaN == 0 - 1000000

\* article_embeddings is None or a matrix.
None == [set |-> FALSE, rows |-> <<>>]

Matrix(rows) == [set |-> TRUE, rows |-> rows]

Question(text) == [text |-> text, source_id |-> "s1", urgency_score |-> 500, frequency |-> 1]

Article(id) == [id |-> id]

\* self.model.encode(text): the embedding function, fixed per text.
encode(text) ==
    CASE text = "a1" -> <<1, 0, 0, 0, 0>>
      [] text = "a2" -> <<3, 2, 1, 1, 1>>
      [] text = "a3" -> <<2, 0, 0, 0, 0>>
      [] text = "q_cover" -> <<3, 2, 1, 1, 1>>
      [] text = "q_other" -> <<0, 1, 0, 0, 0>>
      [] text = "q_opposite" -> <<-1, 0, 0, 0, 0>>
      [] text = "q_blank" -> <<0, 0, 0, 0, 0>>

\* " | ".join([title, description, body[:500]]), one text per article.
ArticleText(article) ==
    CASE article.id = 1 -> "a1"
      [] article.id = 2 -> "a2"
      [] article.id = 3 -> "a3"

RECURSIVE DotFrom(_, _, _)
DotFrom(u, v, i) == IF i > Len(u) THEN 0 ELSE u[i] * v[i] + DotFrom(u, v, i + 1)

Dot(u, v) == DotFrom(u, v, 1)

\* np.linalg.norm
Norm(v) == CHOOSE n \in 0..Dot(v, v) : n * n = Dot(v, v)

\* The dot product of the two normalised vectors, in thousandths; a zero
\* vector divides 0 by 0.
Cosine(u, v) ==
    IF Norm(u) = 0 \/ Norm(v) = 0 THEN NaN
    ELSE (1000 * Dot(u, v)) \div (Norm(u) * Norm(v))

EmbeddedTexts == {"a1", "a2", "a3", "q_cover", "q_other", "q_opposite", "q_blank"}

Vectors == {encode(t) : t \in EmbeddedTexts}

\* Cosine, computed once per pair of vectors.
CosineOf == [u \in Vectors, v \in Vectors |-> Cosine(u, v)]

\* _cosine_similarity(vec1, vec2) for a matrix vec2: one score per row.
cosine_similarity(vec1, rows) == [i \in 1..Len(rows) |-> CosineOf[rows[i], vec1]]

\* np.argmax: the first position of the maximum, the first NaN if there is one.
argmax(sims) ==
    IF \E i \in 1..Len(sims) : sims[i] = NaN
    THEN CHOOSE i \in 1..Len(sims) : sims[i] = NaN /\ \A j \in 1..(i - 1) : sims[j] # NaN
    ELSE CHOOSE i \in 1..Len(sims) :
             /\ \A j \in 1..Len(sims) : sims[j] <= sims[i]
             /\ \A j \in 1..(i - 1) : sims[j] < sims[i]

\* _find_best_match: [idx, score], idx = 0 for None.
find_best_match(emb, question_embedding) ==
    IF ~emb.set \/ Len(emb.rows) = 0 THEN [idx |-> 0, score |-> 0]
    ELSE LET similarities == cosine_similarity(question_embedding, emb.rows)
             best_idx == argmax(similarities)
         IN  [idx |-> best_idx, score |-> similarities[best_idx]]

\* Mutant: a similarity equal to the threshold is no good match.
is_good_strict(similarity, threshold) == similarity # NaN /\ similarity > threshold

\* similarity >= self.similarity_threshold (False for NaN)
is_good(similarity, threshold) == similarity # NaN /\ similarity >= threshold

\* KBMatch: similarity_score: float = Field(ge=0.0, le=1.0)
KBMatchValid(similarity) == similarity # NaN /\ similarity >= 0 /\ similarity <= 1000

KBMatch(question, article, similarity, good) ==
    [question |-> question, article |-> article,
     similarity_score |-> similarity, is_good_match |-> good]

batch_size == 32

Returned(v) == [raised |-> "none", value |-> v]

Raised(e) == [raised |-> e, value |-> <<>>]

\* Mutant: the matches of the batches before the last one are dropped.
RECURSIVE match_loop_last_batch(_, _, _, _, _, _, _)
match_loop_last_batch(arts, emb, thr, questions, fail, i, matches) ==
    IF i > Len(questions) THEN Returned(matches)
    ELSE IF (i - 1) % batch_size = 0 /\ fail = ((i - 1) \div batch_size) + 1
    THEN Raised("EncodeError")
    ELSE LET best == find_best_match(emb, encode(questions[i].text))
             kept == IF (i - 1) % batch_size = 0 THEN <<>> ELSE matches
         IN
         IF best.idx = 0
         THEN match_loop_last_batch(arts, emb, thr, questions, fail, i + 1, kept)
         ELSE IF best.idx > Len(arts) THEN Raised("IndexError")
         ELSE IF ~KBMatchValid(best.score) THEN Raised("ValidationError")
         ELSE match_loop_last_batch(arts, emb, thr, questions, fail, i + 1,
                         Append(kept, KBMatch(questions[i], arts[best.idx], best.score,
                                              is_good(best.score, thr))))

\* The loop of match_questions from question i on, with matches so far;
\* fail is the number of the batch whose encode call raises (0: none).
RECURSIVE match_loop(_, _, _, _, _, _, _)
match_loop(arts, emb, thr, questions, fail, i, matches) ==
    IF i > Len(questions) THEN Returned(matches)
    ELSE IF (i - 1) % batch_size = 0 /\ fail = ((i - 1) \div batch_size) + 1
    THEN Raised("EncodeError")
    ELSE LET best == find_best_match(emb, encode(questions[i].text)) IN
         IF best.idx = 0
         THEN match_loop(arts, emb, thr, questions, fail, i + 1, matches)
         ELSE IF best.idx > Len(arts) THEN Raised("IndexError")
         ELSE IF ~KBMatchValid(best.score) THEN Raised("ValidationError")
         ELSE match_loop(arts, emb, thr, questions, fail, i + 1,
                         Append(matches, KBMatch(questions[i], arts[best.idx], best.score,
                                                 is_good(best.score, thr))))

\* if not self.articles or self.article_embeddings is None
NotIndexed(arts, emb) == arts = <<>> \/ ~emb.set

match_questions(arts, emb, thr, questions, fail) ==
    IF NotIndexed(arts, emb) THEN Returned(<<>>)
    ELSE match_loop(arts, emb, thr, questions, fail, 1, <<>>)

\* index_articles: the [articles, article_embeddings] it leaves and what the
\* caller gets; ok is whether the encode call succeeds.
index_articles(arts, emb, new_articles, ok) ==
    IF new_articles = <<>>
    THEN [articles |-> new_articles, article_embeddings |-> emb, ret |-> Returned(<<>>)]
    ELSE IF ~ok
    THEN [articles |-> new_articles, article_embeddings |-> emb, ret |-> Raised("EncodeError")]
    ELSE [articles |-> new_articles,
          article_embeddings |->
              Matrix([i \in 1..Len(new_articles) |-> encode(ArticleText(new_articles[i]))]),
          ret |-> Returned(<<>>)]

\* np.argsort(similarities)[::-1]: positions by descending score, NaN first,
\* equal scores by descending position.
Before(sims, i, j) ==
    IF sims[i] = sims[j] THEN i > j
    ELSE sims[i] = NaN \/ (sims[j] # NaN /\ sims[i] > sims[j])

argsort_desc(sims) ==
    [r \in 1..Len(sims) |->
        CHOOSE i \in 1..Len(sims) :
            Cardinality({j \in 1..Len(sims) : j # i /\ Before(sims, j, i)}) = r - 1]

Min(a, b) == IF a < b THEN a ELSE b

\* get_top_matches
get_top_matches(arts, emb, question, top_k) ==
    IF ~emb.set THEN Returned(<<>>)
    ELSE LET similarities == cosine_similarity(encode(question.text), emb.rows)
             order == argsort_desc(similarities)
             top_indices == SubSeq(order, 1, Min(top_k, Len(order)))
         IN  IF \E r \in 1..Len(top_indices) : top_indices[r] > Len(arts)
             THEN Raised("IndexError")
             ELSE Returned([r \in 1..Len(top_indices) |->
                              <<arts[top_indices[r]], similarities[top_indices[r]]>>])

(***************************************************************************)
(* KBMatcher as a state machine                                            *)
(***************************************************************************)
MaxArticles == 2     \* articles in one corpus
MaxQuestions == 1    \* questions in a short question list

ArticleIds == {1, 2, 3}

QuestionTexts == {"q_cover", "q_other", "q_opposite", "q_blank"}

MatcherThresholds == {600, 750}

IsInjective(s) == \A i, j \in 1..Len(s) : s[i] = s[j] => i = j

\* A corpus holds an article once.
Corpora == {c \in SeqsUpTo({Article(id) : id \in ArticleIds}, MaxArticles) : IsInjective(c)}

Cycle(p, n) == [i \in 1..n |-> p[((i - 1) % Len(p)) + 1]]

LongPatterns ==
    {<<Question("q_cover")>>,
     <<Question("q_cover"), Question("q_other")>>,
     <<Question("q_other"), Question("q_opposite")>>}

ShortQuestionLists == SeqsUpTo({Question(t) : t \in QuestionTexts}, MaxQuestions)

\* Lists one shorter than, as long as and one longer than an embedding batch.
LongQuestionLists ==
    {Cycle(p, n) : p \in LongPatterns, n \in (batch_size - 1)..(batch_size + 1)}

NumBatches(questions) == (Len(questions) + batch_size - 1) \div batch_size

\* A matcher nobody calls (the other components' specifications).
MatcherIdle ==
    /\ articles = <<>>
    /\ article_embeddings = None
    /\ similarity_threshold = 750
    /\ m_op = "none"
    /\ m_in = <<>>
    /\ m_ret = Returned(<<>>)

\* KBMatcher.__init__
MatcherInit ==
    /\ articles = <<>>
    /\ article_embeddings = None
    /\ similarity_threshold \in MatcherThresholds
    /\ m_op = "none"
    /\ m_in = <<>>
    /\ m_ret = Returned(<<>>)

DoIndex(new_articles, ok) ==
    \E r \in {index_articles(articles, article_embeddings, new_articles, ok)} :
    /\ articles' = r.articles
    /\ article_embeddings' = r.article_embeddings
    /\ m_op' = "index"
    /\ m_in' = new_articles
    /\ m_ret' = r.ret
    /\ UNCHANGED <<similarity_threshold, anonVars, gapVars, extractorVars, workerVars>>

\* index_articles, the embedding call succeeding.
IndexArticles ==
    \E new_articles \in Corpora : Len(new_articles) >= 0 /\ DoIndex(new_articles, TRUE)

\* index_articles, the embedding call raising.
IndexArticlesEncodeFails ==
    \E new_articles \in Corpora : new_articles # <<>> /\ DoIndex(new_articles, FALSE)

DoMatch(questions, fail) ==
    /\ m_op' = "match"
    /\ m_in' = questions
    /\ m_ret' = match_questions(articles, article_embeddings,
                                similarity_threshold, questions, fail)
    /\ UNCHANGED <<articles, article_embeddings, similarity_threshold, anonVars, gapVars, extractorVars, workerVars>>

\* match_questions on a list within one embedding batch.
MatchQuestions ==
    \E questions \in ShortQuestionLists :
        \E fail \in 0..NumBatches(questions) :
            Len(questions) < batch_size /\ DoMatch(questions, fail)

\* match_questions on a list around and beyond one embedding batch.
MatchQuestionsBatched ==
    \E questions \in LongQuestionLists :
        \E fail \in 0..NumBatches(questions) :
            Len(questions) + 1 >= batch_size /\ DoMatch(questions, fail)

TopKs == {1, 5}

GetTopMatches ==
    \E t \in QuestionTexts, top_k \in TopKs :
        /\ m_op' = "top"
        /\ m_in' = <<Question(t)>>
        /\ m_ret' = get_top_matches(articles, article_embeddings, Question(t), top_k)
        /\ UNCHANGED <<articles, article_embeddings, similarity_threshold, anonVars, gapVars, extractorVars, workerVars>>

\* The matcher with questions matched in batches; indexing succeeds.
MatcherNext == IndexArticles \/ MatchQuestions \/ MatchQuestionsBatched

\* The matcher with an embedding call that may fail while indexing.
IndexNext ==
    IndexArticles \/ IndexArticlesEncodeFails \/ MatchQuestions \/ GetTopMatches

(***************************************************************************)
(* GapAnalyzer                                                             *)
(***************************************************************************)
\* A text as its characters.
Chars(text) ==
    CASE text = "Can I cancel my policy early?" ->
           <<"C", "a", "n", " ", "I", " ", "c", "a", "n", "c", "e", "l", " ", "m", "y", " ", "p", "o", "l", "i", "c", "y", " ", "e", "a", "r", "l", "y", "?">>
      [] text = "Hello there" ->
           <<"H", "e", "l", "l", "o", " ", "t", "h", "e", "r", "e">>
      [] text = "Is my payment pending?" ->
           <<"I", "s", " ", "m", "y", " ", "p", "a", "y", "m", "e", "n", "t", " ", "p", "e", "n", "d", "i", "n", "g", "?">>

Uppercase == <<"A", "B", "C", "D", "E", "F", "G", "H", "I", "J", "K", "L", "M", "N", "O", "P", "Q", "R", "S", "T", "U", "V", "W", "X", "Y", "Z">>

Lowercase == <<"a", "b", "c", "d", "e", "f", "g", "h", "i", "j", "k", "l", "m", "n", "o", "p", "q", "r", "s", "t", "u", "v", "w", "x", "y", "z">>

\* str.lower on one character
LowerChar(c) ==
    IF \E i \in 1..Len(Uppercase) : Uppercase[i] = c
    THEN Lowercase[CHOOSE i \in 1..Len(Uppercase) : Uppercase[i] = c]
    ELSE c

lower(chars) == [i \in 1..Len(chars) |-> LowerChar(chars[i])]

\* keyword in text
Contains(chars, keyword) ==
    \E i \in 1..(Len(chars) - Len(keyword) + 1) :
        SubSeq(chars, i, i + Len(keyword) - 1) = keyword

\* theme_patterns of _extract_themes, in the order of the dict.
theme_patterns ==
    <<[theme |-> "claim",
       keywords |-> <<<<"c", "l", "a", "i", "m">>,
                     <<"c", "l", "a", "i", "m", "s">>,
                     <<"f", "i", "l", "i", "n", "g">>,
                     <<"s", "u", "b", "m", "i", "t">>>>],
      [theme |-> "policy",
       keywords |-> <<<<"p", "o", "l", "i", "c", "y">>,
                     <<"p", "o", "l", "i", "c", "i", "e", "s">>,
                     <<"c", "o", "v", "e", "r", "a", "g", "e">>,
                     <<"p", "l", "a", "n">>>>],
      [theme |-> "payment",
       keywords |-> <<<<"p", "a", "y", "m", "e", "n", "t">>,
                     <<"p", "a", "y">>,
                     <<"b", "i", "l", "l", "i", "n", "g">>,
                     <<"i", "n", "v", "o", "i", "c", "e">>,
                     <<"p", "r", "e", "m", "i", "u", "m">>>>],
      [theme |-> "account",
       keywords |-> <<<<"a", "c", "c", "o", "u", "n", "t">>,
                     <<"l", "o", "g", "i", "n">>,
                     <<"p", "a", "s", "s", "w", "o", "r", "d">>,
                     <<"a", "c", "c", "e", "s", "s">>>>],
      [theme |-> "cancellation",
       keywords |-> <<<<"c", "a", "n", "c", "e", "l">>,
                     <<"c", "a", "n", "c", "e", "l", "l", "a", "t", "i", "o", "n">>,
                     <<"t", "e", "r", "m", "i", "n", "a", "t", "e">>,
                     <<"e", "n", "d">>>>],
      [theme |-> "renewal",
       keywords |-> <<<<"r", "e", "n", "e", "w">>,
                     <<"r", "e", "n", "e", "w", "a", "l">>,
                     <<"e", "x", "t", "e", "n", "s", "i", "o", "n">>,
                     <<"e", "x", "p", "i", "r", "y">>,
                     <<"e", "x", "p", "i", "r", "e">>>>],
      [theme |-> "quote",
       keywords |-> <<<<"q", "u", "o", "t", "e">>,
                     <<"q", "u", "o", "t", "a", "t", "i", "o", "n">>,
                     <<"e", "s", "t", "i", "m", "a", "t", "e">>,
                     <<"p", "r", "i", "c", "e">>>>],
      [theme |-> "document",
       keywords |-> <<<<"d", "o", "c", "u", "m", "e", "n", "t">>,
                     <<"d", "o", "c", "u", "m", "e", "n", "t", "s">>,
                     <<"p", "a", "p", "e", "r", "w", "o", "r", "k">>,
                     <<"f", "o", "r", "m", "s">>,
                     <<"c", "e", "r", "t", "i", "f", "i", "c", "a", "t", "e">>>>],
      [theme |-> "contact",
       keywords |-> <<<<"c", "o", "n", "t", "a", "c", "t">>,
                     <<"r", "e", "a", "c", "h">>,
                     <<"p", "h", "o", "n", "e">>,
                     <<"e", "m", "a", "i", "l">>,
                     <<"s", "u", "p", "p", "o", "r", "t">>>>],
      [theme |-> "change",
       keywords |-> <<<<"c", "h", "a", "n", "g", "e">>,
                     <<"u", "p", "d", "a", "t", "e">>,
                     <<"m", "o", "d", "i", "f", "y">>,
                     <<"e", "d", "i", "t">>>>]>>

\* _extract_themes: the themes with a keyword in the text, in dict order,
\* ["general"] when there is none.
extract_themes(chars) ==
    LET hit(i) == \E k \in 1..Len(theme_patterns[i].keywords) :
                      Contains(chars, theme_patterns[i].keywords[k])
        hits == SelectSeq([i \in 1..Len(theme_patterns) |-> i], hit)
    IN  IF hits = <<>> THEN <<"general">>
        ELSE [j \in 1..Len(hits) |-> theme_patterns[hits[j]].theme]

GapTexts == {"Can I cancel my policy early?", "Hello there", "Is my payment pending?"}

\* _extract_themes(gap.question.text.lower()), computed once per text.
ThemesOf == [t \in GapTexts |-> extract_themes(lower(Chars(t)))]

AnswerCandidate(text, source_id) ==
    [text |-> text, source_id |-> source_id, confidence_score |-> 500]

\* gap_severity and priority, in ten-thousandths; urgency, threshold and
\* similarity are in thousandths: 0.4 * 1.000 is 4 * 1000 ten-thousandths.
gap_severity(threshold, similarity) == threshold - similarity

\* Mutant: the frequency ratio without its cap.
frequency_term_uncapped(frequency) == 1000 * frequency

frequency_term(frequency) == Min(1000 * frequency, 2000)

\* The frequency term weighted by 0.2.
priority_weighted(question, threshold, similarity) ==
    4 * question.urgency_score + 4 * gap_severity(threshold, similarity)
        + frequency_term(question.frequency) \div 5

priority(question, threshold, similarity) ==
    4 * question.urgency_score + 4 * gap_severity(threshold, similarity)
        + frequency_term(question.frequency)

\* KnowledgeGap: priority_score: float = Field(default=0.5, ge=0.0, le=1.0)
KnowledgeGapValid(priority_score) == priority_score >= 0 /\ priority_score <= 10000

\* best_match and theme are Optional: <<>> is None, <<x>> is x.
KnowledgeGap(question, best_match, answer_candidates, priority_score, theme) ==
    [question |-> question, best_match |-> best_match,
     answer_candidates |-> answer_candidates,
     priority_score |-> priority_score, theme |-> theme]

\* Every answer candidate, whatever its source.
all_answers(answer_candidates, source_id) == answer_candidates

\* answer_by_source.get(question.source_id, [])
relevant_answers(answer_candidates, source_id) ==
    LET same(a) == a.source_id = source_id IN SelectSeq(answer_candidates, same)

\* Mutant: the best match kept from a similarity of 0.5 on.
make_gap_from_half(match, answer_candidates, threshold) ==
    KnowledgeGap(match.question,
                 IF match.similarity_score >= 500 THEN <<match>> ELSE <<>>,
                 relevant_answers(answer_candidates, match.question.source_id),
                 Min(priority(match.question, threshold, match.similarity_score), 10000),
                 <<>>)

\* The gap of one poor match.
make_gap(match, answer_candidates, threshold) ==
    KnowledgeGap(match.question,
                 IF match.similarity_score > 500 THEN <<match>> ELSE <<>>,
                 relevant_answers(answer_candidates, match.question.source_id),
                 Min(priority(match.question, threshold, match.similarity_score), 10000),
                 <<>>)

\* The list left in the order it came in.
Unsorted(s, key) == s

\* A descending sort that puts the later of two equal keys first.
SortDescLastFirst(s, key) ==
    LET rank(i) == 1 + Cardinality({j \in 1..Len(s) :
                         key[j] > key[i] \/ (key[j] = key[i] /\ j > i)})
    IN  [p \in 1..Len(s) |-> s[CHOOSE i \in 1..Len(s) : rank(i) = p]]

\* list.sort(key=..., reverse=True): stable, descending by key.
SortDesc(s, key) ==
    LET rank(i) == 1 + Cardinality({j \in 1..Len(s) :
                         key[j] > key[i] \/ (key[j] = key[i] /\ j < i)})
    IN  [p \in 1..Len(s) |-> s[CHOOSE i \in 1..Len(s) : rank(i) = p]]

\* Each gap gets the first of its themes, no count taken.
cluster_first_theme(gaps) ==
    [i \in 1..Len(gaps) |->
        [gaps[i] EXCEPT !.theme = <<ThemesOf[gaps[i].question.text][1]>>]]

\* _cluster_and_theme: len(theme_keywords[t]) is counted over all gaps
\* before a theme is assigned.
cluster_and_theme(gaps) ==
    LET members(t) == Cardinality({i \in 1..Len(gaps) :
                          \E j \in 1..Len(ThemesOf[gaps[i].question.text]) :
                              ThemesOf[gaps[i].question.text][j] = t})
        theme_of(gap) ==
            LET themes == ThemesOf[gap.question.text]
                theme_counts == SortDesc(themes, [j \in 1..Len(themes) |-> members(themes[j])])
            IN  theme_counts[1]
    IN  [i \in 1..Len(gaps) |-> [gaps[i] EXCEPT !.theme = <<theme_of(gaps[i])>>]]

\* identify_gaps
identify_gaps(matches, answer_candidates, threshold) ==
    LET poor(m) == ~m.is_good_match
        poor_matches == SelectSeq(matches, poor)
        gaps == [i \in 1..Len(poor_matches) |->
                    make_gap(poor_matches[i], answer_candidates, threshold)]
    IN  IF \E i \in 1..Len(gaps) : ~KnowledgeGapValid(gaps[i].priority_score)
        THEN Raised("ValidationError")
        ELSE LET themed == cluster_and_theme(gaps)
             IN  Returned(SortDesc(themed,
                     [i \in 1..Len(themed) |-> themed[i].priority_score]))

(***************************************************************************)
(* GapAnalyzer as a state machine: the arguments are drawn, then           *)
(* identify_gaps is called.                                                *)
(***************************************************************************)
MaxMatches == 2     \* matches passed to identify_gaps
MaxAnswers == 2     \* answer candidates passed to identify_gaps

GapQuestions ==
    {[text |-> "Can I cancel my policy early?", source_id |-> "s1",
      urgency_score |-> 1000, frequency |-> 1],
     [text |-> "Hello there", source_id |-> "s2",
      urgency_score |-> 0, frequency |-> 1],
     [text |-> "Is my payment pending?", source_id |-> "s1",
      urgency_score |-> 500, frequency |-> 3]}

GapSimilarities == {0, 500, 900}

\* The threshold of the matcher the matches come from, and the analyzer's.
GapMatcherThresholds == {750, 950}

GapAnalyzerThresholds == {500, 750}

GapAnswers == {AnswerCandidate("answer 1", "s1"), AnswerCandidate("answer 2", "s2"),
               AnswerCandidate("answer 3", "s1")}

\* The matches a matcher of threshold thr returns.
MatchesOf(thr) ==
    SeqsUpTo({KBMatch(q, Article(1), sim, is_good(sim, thr)) :
                 q \in GapQuestions, sim \in GapSimilarities}, MaxMatches)

GapIdle ==
    /\ g_threshold = 750
    /\ g_matches = <<>>
    /\ g_answers = <<>>
    /\ g_op = "none"
    /\ g_ret = Returned(<<>>)

\* GapAnalyzer.__init__, and the arguments of the call to come.
GapInit ==
    /\ g_threshold \in GapAnalyzerThresholds
    /\ \E thr \in GapMatcherThresholds : g_matches \in MatchesOf(thr)
    /\ g_answers \in SeqsUpTo(GapAnswers, MaxAnswers)
    /\ g_op = "none"
    /\ g_ret = Returned(<<>>)

IdentifyGaps ==
    /\ g_op = "none"
    /\ g_op' = "identify_gaps"
    /\ g_ret' = identify_gaps(g_matches, g_answers, g_threshold)
    /\ UNCHANGED <<g_threshold, g_matches, g_answers, anonVars, matcherVars, extractorVars, workerVars>>

GapNext == IdentifyGaps

\* An analyzer whose threshold comes from SIMILARITY_THRESHOLD, which the
\* configuration does not confine to [0, 1]; no answer candidates.
ClampThresholds == {750, 1500}

ClampInit ==
    /\ g_threshold \in ClampThresholds
    /\ \E thr \in GapMatcherThresholds : g_matches \in MatchesOf(thr)
    /\ g_answers = <<>>
    /\ g_op = "none"
    /\ g_ret = Returned(<<>>)

(***************************************************************************)
(* QuestionExtractor                                                       *)
(*                                                                         *)
(* A prompt is the lines of interaction text placed in it, each a label    *)
(* and a text.  The extraction collaborator sees the prompt only: what it  *)
(* returns quotes a line of the prompt.  An Optional field is <<>> for     *)
(* None and <<x>> for x.                                                   *)
(***************************************************************************)
Line(label, text) == [label |-> label, text |-> text]

Turn(speaker, text) == [speaker |-> speaker, text |-> text]

ParsedTranscript(id, turns) == [id |-> id, turns |-> turns]

ParsedEmail(id, from_address, subject, body_text, is_reply) ==
    [id |-> id, from_address |-> from_address, subject |-> subject,
     body_text |-> body_text, is_reply |-> is_reply]

\* Question and AnswerCandidate as the extractor builds them.
ExtractedQuestion(text, source_type, source_id, source_excerpt, urgency_score, context) ==
    [text |-> text, source_type |-> source_type, source_id |-> source_id,
     source_excerpt |-> source_excerpt, urgency_score |-> urgency_score,
     context |-> context, frequency |-> 1]

ExtractedAnswer(text, source_type, source_id, confidence_score, context) ==
    [text |-> text, source_type |-> source_type, source_id |-> source_id,
     confidence_score |-> confidence_score, context |-> context]

\* Question: urgency_score: float = Field(default=0.5, ge=0.0, le=1.0)
ScoreValid(score) == score >= 0 /\ score <= 1000

\* text = self.anonymizer.anonymize_text(text) if anonymization is enabled;
\* the result is the text and the anonymizer after the call.
maybe_anonymize(enabled, an, text) ==
    IF enabled THEN anonymize_text(text, an) ELSE [text |-> text, an |-> an]

\* The conversation of _extract_from_transcript from turn i on.
RECURSIVE conversation(_, _, _, _, _)
conversation(enabled, an, turns, i, lines) ==
    IF i > Len(turns) THEN [lines |-> lines, an |-> an]
    ELSE LET r == maybe_anonymize(enabled, an, turns[i].text)
         IN  conversation(enabled, r.an, turns, i + 1,
                          Append(lines, Line(turns[i].speaker, r.text)))

\* The prompt of _extract_from_transcript.
transcript_prompt(enabled, an, transcript) ==
    conversation(enabled, an, transcript.turns, 1, <<>>)

\* The prompt of _extract_from_email: from_addr, subject, body in that order.
email_prompt(enabled, an, email) ==
    LET f == maybe_anonymize(enabled, an, email.from_address)
        s == maybe_anonymize(enabled, f.an, email.subject)
        b == maybe_anonymize(enabled, s.an, email.body_text)
    IN  [lines |-> <<Line("From", f.text), Line("Subject", s.text),
                     Line(IF email.is_reply THEN "Support response"
                          ELSE "Customer inquiry", b.text)>>,
         an |-> b.an]

Extracted(questions, answers) == [questions |-> questions, answers |-> answers]

\* The replies of the collaborator to a prompt: text that is not JSON, or
\* data with questions and answers that quote a line of the prompt.
Quote(text, context, score) == [text |-> text, context |-> context, score |-> score]

QuotesOf(lines, scores) ==
    UNION {{Quote(lines[i].text, c, sc) :
                c \in {<<>>, <<lines[i].text>>}, sc \in scores} :
           i \in 1..Len(lines)}

Responses(lines) ==
    {[json |-> FALSE, questions |-> <<>>, answers |-> <<>>]}
    \cup {[json |-> TRUE, questions |-> qs, answers |-> as] :
             qs \in {<<>>} \cup {<<q>> : q \in QuotesOf(lines, {700, 1500})},
             as \in {<<>>} \cup {<<a>> : a \in QuotesOf(lines, {900})}}

AllScoresValid(response) ==
    /\ \A i \in 1..Len(response.questions) : ScoreValid(response.questions[i].score)
    /\ \A i \in 1..Len(response.answers) : ScoreValid(response.answers[i].score)

\* _extract_from_transcript after the reply: a JSONDecodeError or any other
\* exception gives ([], []).
transcript_result(transcript, response) ==
    IF ~response.json \/ ~AllScoresValid(response) THEN Extracted(<<>>, <<>>)
    ELSE Extracted(
        [i \in 1..Len(response.questions) |->
            ExtractedQuestion(response.questions[i].text, "call_transcript",
                transcript.id, response.questions[i].context,
                response.questions[i].score, response.questions[i].context)],
        [i \in 1..Len(response.answers) |->
            ExtractedAnswer(response.answers[i].text, "call_transcript",
                transcript.id, response.answers[i].score,
                response.answers[i].context)])

\* _extract_from_email after the reply: source_excerpt and context are
\* built from email.subject and email.from_address.
email_result(email, response) ==
    IF ~response.json \/ ~AllScoresValid(response) THEN Extracted(<<>>, <<>>)
    ELSE Extracted(
        [i \in 1..Len(response.questions) |->
            ExtractedQuestion(response.questions[i].text, "email", email.id,
                <<email.subject>>, response.questions[i].score,
                <<email.from_address \o email.subject>>)],
        [i \in 1..Len(response.answers) |->
            ExtractedAnswer(response.answers[i].text, "email", email.id,
                response.answers[i].score, <<email.subject>>)])

(***************************************************************************)
(* QuestionExtractor as a state machine                                    *)
(***************************************************************************)
MaxTurns == 2       \* turns of a transcript

TurnTexts == {<<Tok("word", 0)>>,
              <<Tok("email", 1), Tok("name", 1 + NumPlaceholderNames)>>}

Speakers == <<"Customer", "Agent">>

\* Transcripts whose speakers alternate, the customer first.
Transcripts ==
    {ParsedTranscript("t1", [i \in 1..Len(ts) |->
                                Turn(Speakers[2 - (i % 2)], ts[i])]) :
        ts \in SeqsUpTo(TurnTexts, MaxTurns)}

Emails ==
    {ParsedEmail("e1", <<Tok("email", 1)>>, subject, body, is_reply) :
        subject \in {<<Tok("word", 0)>>, <<Tok("policy", 1)>>},
        body \in TurnTexts, is_reply \in BOOLEAN}

FreshAnonymizer == AnonState(EmptyMap, EmptyMap, EmptyMap, 0, 0, 0)

NoInteraction == ParsedTranscript("none", <<>>)

ExtractorIdle ==
    /\ x_anonymize_enabled = TRUE
    /\ x_anonymizer = FreshAnonymizer
    /\ x_in = NoInteraction
    /\ x_prompt = <<>>
    /\ x_responses = <<>>
    /\ x_op = "none"
    /\ x_ret = Extracted(<<>>, <<>>)

\* QuestionExtractor.__init__
ExtractorInit ==
    /\ x_anonymize_enabled \in BOOLEAN
    /\ x_anonymizer = FreshAnonymizer
    /\ x_in = NoInteraction
    /\ x_prompt = <<>>
    /\ x_responses = <<>>
    /\ x_op = "none"
    /\ x_ret = Extracted(<<>>, <<>>)

ExtractFromTranscript ==
    \E transcript \in Transcripts :
      \E p \in {transcript_prompt(x_anonymize_enabled, x_anonymizer, transcript)} :
        \E response \in Responses(p.lines) :
            /\ x_in' = transcript
            /\ x_prompt' = p.lines
            /\ x_responses' = <<response>>
            /\ x_anonymizer' = p.an
            /\ x_op' = "transcript"
            /\ x_ret' = transcript_result(transcript, response)
            /\ UNCHANGED <<x_anonymize_enabled, anonVars, matcherVars, gapVars, workerVars>>

ExtractFromEmail ==
    \E email \in Emails :
      \E p \in {email_prompt(x_anonymize_enabled, x_anonymizer, email)} :
        \E response \in Responses(p.lines) :
            /\ x_in' = email
            /\ x_prompt' = p.lines
            /\ x_responses' = <<response>>
            /\ x_anonymizer' = p.an
            /\ x_op' = "email"
            /\ x_ret' = email_result(email, response)
            /\ UNCHANGED <<x_anonymize_enabled, anonVars, matcherVars, gapVars, workerVars>>

ExtractorNext == ExtractFromTranscript \/ ExtractFromEmail

(***************************************************************************)
(* extract_from_transcripts and extract_from_emails: a batch of            *)
(* interactions, one reply of the collaborator for each.                   *)
(***************************************************************************)
\* What the collaborator replies to a prompt: text that is not JSON, data
\* with no item, a question and an answer that quote the first line, or the
\* same with an urgency outside [0, 1].
ReplyShapes == {"not json", "nothing", "question and answer", "bad urgency and answer"}

Reply(shape, lines) ==
    CASE shape = "not json" ->
            [json |-> FALSE, questions |-> <<>>, answers |-> <<>>]
      [] shape = "nothing" ->
            [json |-> TRUE, questions |-> <<>>, answers |-> <<>>]
      [] shape = "question and answer" ->
            [json |-> TRUE, questions |-> <<Quote(lines[1].text, <<>>, 700)>>,
             answers |-> <<Quote(lines[1].text, <<>>, 900)>>]
      [] shape = "bad urgency and answer" ->
            [json |-> TRUE, questions |-> <<Quote(lines[1].text, <<>>, 1500)>>,
             answers |-> <<Quote(lines[1].text, <<>>, 900)>>]

\* The loop of extract_from_transcripts (kind "transcripts") and of
\* extract_from_emails (kind "emails") from interaction i on; acc holds
\* all_questions, all_answers, the prompts sent, the replies and the
\* anonymizer so far.
\* acc after one interaction: its prompt p was sent and response came back.
extract_one(kind, item, acc, p, response) ==
    LET r == IF kind = "transcripts"
             THEN transcript_result(item, response)
             ELSE email_result(item, response)
    IN  [questions |-> acc.questions \o r.questions,
         answers |-> acc.answers \o r.answers,
         prompts |-> Append(acc.prompts, p.lines),
         responses |-> Append(acc.responses, response),
         an |-> p.an]

send_prompt(kind, item, shape, acc, p) ==
    extract_one(kind, item, acc, p, Reply(shape, p.lines))

RECURSIVE extract_loop(_, _, _, _, _, _)
extract_loop(kind, enabled, items, shapes, i, acc) ==
    IF i > Len(items) THEN acc
    ELSE extract_loop(kind, enabled, items, shapes, i + 1,
            send_prompt(kind, items[i], shapes[i], acc,
                IF kind = "transcripts"
                THEN transcript_prompt(enabled, acc.an, items[i])
                ELSE email_prompt(enabled, acc.an, items[i])))

extract_from_transcripts(enabled, an, transcripts, shapes) ==
    extract_loop("transcripts", enabled, transcripts, shapes, 1,
        [questions |-> <<>>, answers |-> <<>>, prompts |-> <<>>,
         responses |-> <<>>, an |-> an])

extract_from_emails(enabled, an, emails, shapes) ==
    extract_loop("emails", enabled, emails, shapes, 1,
        [questions |-> <<>>, answers |-> <<>>, prompts |-> <<>>,
         responses |-> <<>>, an |-> an])

MaxInteractions == 2    \* interactions of a batch

InteractionIds == <<"i1", "i2", "i3", "i4">>

\* Batches of one-turn transcripts, and of customer emails.
TranscriptBatches ==
    {[i \in 1..Len(ts) |->
        ParsedTranscript(InteractionIds[i], <<Turn("Customer", ts[i])>>)] :
        ts \in SeqsUpTo(TurnTexts, MaxInteractions)}

EmailBatches ==
    {[i \in 1..Len(bs) |->
        ParsedEmail(InteractionIds[i], <<Tok("email", 1)>>, <<Tok("word", 0)>>,
                    bs[i], FALSE)] :
        bs \in SeqsUpTo(TurnTexts, MaxInteractions)}

DoExtract(op, items, r) ==
    /\ x_in' = items
    /\ x_prompt' = r.prompts
    /\ x_responses' = r.responses
    /\ x_anonymizer' = r.an
    /\ x_op' = op
    /\ x_ret' = Extracted(r.questions, r.answers)
    /\ UNCHANGED <<x_anonymize_enabled, anonVars, matcherVars, gapVars, workerVars>>

ExtractFromTranscripts ==
    \E transcripts \in TranscriptBatches :
      \E shapes \in [1..Len(transcripts) -> ReplyShapes] :
        \E r \in {extract_from_transcripts(x_anonymize_enabled, x_anonymizer,
                                           transcripts, shapes)} :
            Len(transcripts) <= MaxInteractions /\ DoExtract("transcripts", transcripts, r)

ExtractFromEmails ==
    \E emails \in EmailBatches :
      \E shapes \in [1..Len(emails) -> ReplyShapes] :
        \E r \in {extract_from_emails(x_anonymize_enabled, x_anonymizer,
                                      emails, shapes)} :
            Len(emails) <= MaxInteractions /\ DoExtract("emails", emails, r)

BatchNext == ExtractFromTranscripts \/ ExtractFromEmails

(***************************************************************************)
(* PIIAnonymizer as a state machine: one instance, a sequence of calls.    *)
(***************************************************************************)
EmailIds == {1, 2}
PolicyIds == {1}
NameIds == {1}

\* What a caller's text is made of.
RawTokens ==
    {Tok("email", n) : n \in EmailIds} \cup {Tok("policy", n) : n \in PolicyIds}
    \cup {Tok("name", n + NumPlaceholderNames) : n \in NameIds}
    \cup {Tok("word", 0)}

Texts == SeqsUpTo(RawTokens, MaxLen)

Self == AnonState(name_map, email_map, policy_map,
                  name_counter, email_counter, policy_counter)

Referential(t) == MatchesEmail(t) \/ MatchesPolicy(t) \/ MatchesName(t)

Keys(an) == DOMAIN an.email_map \cup DOMAIN an.policy_map \cup DOMAIN an.name_map

\* History only: the output token of the first occurrence of each original.
RECURSIVE FirstRendering(_, _, _)
FirstRendering(h, x, y) ==
    IF x = <<>> THEN h
    ELSE FirstRendering(IF Referential(Head(x)) /\ Head(x) \notin DOMAIN h
                        THEN h @@ (Head(x) :> Head(y)) ELSE h,
                        Tail(x), Tail(y))

\* PIIAnonymizer.__init__
AnonInit ==
    /\ name_map = EmptyMap
    /\ email_map = EmptyMap
    /\ policy_map = EmptyMap
    /\ name_counter = 0
    /\ email_counter = 0
    /\ policy_counter = 0
    /\ text_in = <<>>
    /\ text_out = <<>>
    /\ call = "none"
    /\ ncalls = 0
    /\ known = {}
    /\ rendered = EmptyMap

DoAnonymize(x, kind) ==
    \E r \in {anonymize_text(x, Self)} :
    /\ ncalls < MaxCalls
    /\ name_map' = r.an.name_map
    /\ email_map' = r.an.email_map
    /\ policy_map' = r.an.policy_map
    /\ name_counter' = r.an.name_counter
    /\ email_counter' = r.an.email_counter
    /\ policy_counter' = r.an.policy_counter
    /\ text_in' = x
    /\ text_out' = r.text
    /\ call' = kind
    /\ ncalls' = ncalls + 1
    /\ known' = Keys(Self)
    /\ rendered' = FirstRendering(rendered, x, r.text)
    /\ UNCHANGED <<matcherVars, gapVars, extractorVars, workerVars>>

\* anonymize_text on a caller's text.
AnonymizeText == \E x \in Texts : Len(x) <= MaxLen /\ DoAnonymize(x, "text")

\* anonymize_text on the text the previous call returned.
AnonymizeAgain == call # "none" /\ DoAnonymize(text_out, "again")

AnonNext == AnonymizeText \/ AnonymizeAgain

\* Texts with the values the constant stages look for: a bare year "2024",
\* the dates "01/15/80" and "01/15/1980", a card number, and a policy
\* reference and an email address to be given placeholders.
PIITokens ==
    {Tok("word", 0), Tok("year", 2024), Tok("date", 0), Tok("date4", 0),
     Tok("card", 0), Tok("policy", 1), Tok("email", 1)}

PIITexts == SeqsUpTo(PIITokens, MaxLen)

AnonymizePIIText == \E x \in PIITexts : Len(x) <= MaxLen /\ DoAnonymize(x, "text")

PIINext == AnonymizePIIText

\* One instance given many names: every call brings a text of one title and
\* name, a name not seen before (one of two per call) or the last one again.
MaxNameCalls == 12

FreshNames ==
    {Tok("name", 100 + Cardinality(DOMAIN name_map)),
     Tok("name", 200 + Cardinality(DOMAIN name_map))}

DoAnonymizeName(x, kind) ==
    \E r \in {anonymize_text(x, Self)} :
    /\ ncalls < MaxNameCalls
    /\ name_map' = r.an.name_map
    /\ email_map' = r.an.email_map
    /\ policy_map' = r.an.policy_map
    /\ name_counter' = r.an.name_counter
    /\ email_counter' = r.an.email_counter
    /\ policy_counter' = r.an.policy_counter
    /\ text_in' = x
    /\ text_out' = r.text
    /\ call' = kind
    /\ ncalls' = ncalls + 1
    /\ known' = Keys(Self)
    /\ rendered' = FirstRendering(rendered, x, r.text)
    /\ UNCHANGED <<matcherVars, gapVars, extractorVars, workerVars>>

AnonymizeNewName == \E t \in FreshNames : t.k = "name" /\ DoAnonymizeName(<<t>>, "text")

AnonymizeSeenName == call # "none" /\ DoAnonymizeName(text_in, "seen")

NamesNext == AnonymizeNewName \/ AnonymizeSeenName

(***************************************************************************)
(* Concurrent runs.  app.py starts "cli.py process" as a subprocess for a   *)
(* session; every run builds its own QuestionExtractor, which builds its    *)
(* own PIIAnonymizer.  A replacement function is four steps: the           *)
(* membership test, the increment, the store and the return.               *)
(***************************************************************************)
MaxReplacements == 2     \* matches replaced by one run

Workers == {1, 2}

\* Mutant: every run uses one and the same instance, without a lock.
shared_anonymizer(w) == 1

\* self.anonymizer = PIIAnonymizer(): the instance a run uses is its own.
anonymizer_of(w) == w

WorkerMatches ==
    {Tok("email", 1), Tok("email", 2), Tok("policy", 1),
     Tok("name", 1 + NumPlaceholderNames)}

Category(t) ==
    CASE MatchesEmail(t) -> "email"
      [] MatchesPolicy(t) -> "policy"
      [] MatchesName(t) -> "name"

MapOf(an, t) ==
    CASE Category(t) = "email" -> an.email_map
      [] Category(t) = "policy" -> an.policy_map
      [] Category(t) = "name" -> an.name_map

\* The placeholder written for counter value c.
PlaceholderOf(cat, c) ==
    CASE cat = "email" -> EmailPlaceholder(c)
      [] cat = "policy" -> PolicyPlaceholder(c)
      [] cat = "name" -> NamePlaceholder(c)

\* self.<category>_counter += 1
incremented(an, t) ==
    CASE Category(t) = "email" -> [an EXCEPT !.email_counter = @ + 1]
      [] Category(t) = "policy" -> [an EXCEPT !.policy_counter = @ + 1]
      [] Category(t) = "name" -> [an EXCEPT !.name_counter = @ + 1]

\* self.<category>_map[original] = the placeholder of the counter
stored(an, t) ==
    CASE Category(t) = "email" ->
             [an EXCEPT !.email_map = (t :> EmailPlaceholder(an.email_counter)) @@ @]
      [] Category(t) = "policy" ->
             [an EXCEPT !.policy_map = (t :> PolicyPlaceholder(an.policy_counter)) @@ @]
      [] Category(t) = "name" ->
             [an EXCEPT !.name_map = (t :> NamePlaceholder(an.name_counter)) @@ @]

WorkersInit ==
    /\ instances = [i \in Workers |-> AnonState(EmptyMap, EmptyMap, EmptyMap, 0, 0, 0)]
    /\ w_pc = [w \in Workers |-> "idle"]
    /\ w_match = [w \in Workers |-> Tok("word", 0)]
    /\ w_done = [w \in Workers |-> 0]
    /\ stores = [i \in Workers |-> <<>>]

\* re.sub calls the replacement function with the next match.
BeginReplace(w) ==
    /\ w_pc[w] = "idle"
    /\ w_done[w] < MaxReplacements
    /\ \E t \in WorkerMatches : w_match' = [w_match EXCEPT ![w] = t]
    /\ w_pc' = [w_pc EXCEPT ![w] = "test"]
    /\ UNCHANGED <<instances, w_done, stores, anonVars, matcherVars, gapVars, extractorVars>>

\* if original not in self.<category>_map
TestMembership(w) ==
    /\ w_pc[w] = "test"
    /\ w_pc' = [w_pc EXCEPT ![w] =
                  IF w_match[w] \in DOMAIN MapOf(instances[anonymizer_of(w)], w_match[w])
                  THEN "return" ELSE "increment"]
    /\ UNCHANGED <<instances, w_match, w_done, stores, anonVars, matcherVars, gapVars, extractorVars>>

IncrementCounter(w) ==
    /\ w_pc[w] = "increment"
    /\ instances' = [instances EXCEPT ![anonymizer_of(w)] = incremented(@, w_match[w])]
    /\ w_pc' = [w_pc EXCEPT ![w] = "store"]
    /\ UNCHANGED <<w_match, w_done, stores, anonVars, matcherVars, gapVars, extractorVars>>

StorePlaceholder(w) ==
    /\ w_pc[w] = "store"
    /\ \E an \in {stored(instances[anonymizer_of(w)], w_match[w])} :
           /\ instances' = [instances EXCEPT ![anonymizer_of(w)] = an]
           /\ stores' = [stores EXCEPT ![anonymizer_of(w)] =
                            Append(@, <<w_match[w], MapOf(an, w_match[w])[w_match[w]]>>)]
    /\ w_pc' = [w_pc EXCEPT ![w] = "return"]
    /\ UNCHANGED <<w_match, w_done, anonVars, matcherVars, gapVars, extractorVars>>

\* return self.<category>_map[original]
ReturnPlaceholder(w) ==
    /\ w_pc[w] = "return"
    /\ w_done' = [w_done EXCEPT ![w] = @ + 1]
    /\ w_pc' = [w_pc EXCEPT ![w] = "idle"]
    /\ UNCHANGED <<instances, w_match, stores, anonVars, matcherVars, gapVars, extractorVars>>

WorkersNext ==
    \E w \in Workers :
        \/ BeginReplace(w)
        \/ TestMembership(w)
        \/ IncrementCounter(w)
        \/ StorePlaceholder(w)
        \/ ReturnPlaceholder(w)

(***************************************************************************)
(* Claims about the matcher                                                *)
(***************************************************************************)
\* The embeddings of a corpus, row by row.
EmbeddingsOf(arts) == [i \in 1..Len(arts) |-> encode(ArticleText(arts[i]))]

\* C4: match_questions on a matcher that is not indexed fails with a
\* condition the caller can tell from a successful empty result, and
\* returns no Match.
C4_NotIndexedFails ==
    (m_op = "match" /\ m_in # <<>> /\ NotIndexed(articles, article_embeddings))
        => (m_ret.raised # "none" /\ m_ret.value = <<>>)

\* C5: on an indexed non-empty corpus match_questions returns one Match per
\* Question, the i-th for the i-th Question, whatever cosine similarity in
\* [-1, 1] the best article has (the embedding calls succeeding, no zero
\* vector).
C5_OneMatchPerQuestion ==
    (/\ m_op = "match"
     /\ ~NotIndexed(articles, article_embeddings)
     /\ m_ret.raised # "EncodeError"
     /\ \A i \in 1..Len(m_in) : Norm(encode(m_in[i].text)) # 0)
        => /\ m_ret.raised = "none"
           /\ Len(m_ret.value) = Len(m_in)
           /\ \A i \in 1..Len(m_in) : m_ret.value[i].question = m_in[i]

\* C6: every Match has is_good_match = (similarity_score >= the matcher's
\* similarity_threshold).
C6_GoodMatchFlag ==
    m_op = "match" =>
        \A i \in 1..Len(m_ret.value) :
            m_ret.value[i].is_good_match
                = (m_ret.value[i].similarity_score >= similarity_threshold)

\* A Match whose similarity equals the threshold, and is good.
C6_Witness ==
    /\ m_op = "match"
    /\ \E i \in 1..Len(m_ret.value) :
           /\ m_ret.value[i].similarity_score = similarity_threshold
           /\ m_ret.value[i].is_good_match

\* C7: after index_articles(A2) returns, the matcher holds the articles of
\* A2 and the embeddings of A2 and nothing else, also for A2 = [].
C7_IndexReplaces ==
    (m_op = "index" /\ m_ret.raised = "none")
        => /\ articles = m_in
           /\ article_embeddings.rows = EmbeddingsOf(m_in)

\* C8: the stored embedding matrix has one row per stored article, row i the
\* embedding of article i, and no lookup leaves the article list.
C8_Aligned ==
    /\ article_embeddings.set => article_embeddings.rows = EmbeddingsOf(articles)
    /\ m_ret.raised # "IndexError"

\* C16: when the embedding call fails for the questions of one batch during
\* match_questions, the Matches of the questions of the other batches are
\* still returned: the call does not abort as a whole.
C16_EncodeFailureLocal ==
    (/\ m_op = "match"
     /\ ~NotIndexed(articles, article_embeddings)
     /\ m_ret.raised = "EncodeError")
        => /\ Len(m_ret.value) >= Len(m_in) - batch_size
           /\ \A i \in 1..Len(m_ret.value) :
                 \E j \in 1..Len(m_in) : m_ret.value[i].question = m_in[j]

\* The first position of the largest cosine similarity between the question
\* and the stored articles, each article embedded as index_articles does.
IsFirstMax(sims, k) ==
    /\ \A j \in 1..Len(sims) : sims[j] <= sims[k]
    /\ \A j \in 1..(k - 1) : sims[j] < sims[k]

BestOfStored(match, k) ==
    /\ articles[k] = match.article
    /\ IsFirstMax(cosine_similarity(encode(match.question.text), EmbeddingsOf(articles)), k)

\* C22: the article of every Match has the largest cosine similarity to the
\* question among the indexed articles, the one at the lowest position of
\* the index when several share it.
C22_BestArticleFirstMax ==
    m_op = "match" =>
        \A i \in 1..Len(m_ret.value) :
            \E k \in 1..Len(articles) : BestOfStored(m_ret.value[i], k)

\* The results of match_questions on each question alone, one after the
\* other, concatenated; the first call that raises ends the sequence.
RECURSIVE OneAtATime(_, _, _, _, _, _)
OneAtATime(arts, emb, thr, questions, i, acc) ==
    IF i > Len(questions) THEN Returned(acc)
    ELSE LET r == match_questions(arts, emb, thr, <<questions[i]>>, 0) IN
         IF r.raised # "none" THEN r
         ELSE OneAtATime(arts, emb, thr, questions, i + 1, acc \o r.value)

\* C23: with an embedding function fixed per text, match_questions on a
\* list shorter than, as long as or longer than an embedding batch returns
\* what the calls on each question alone return, concatenated in order.
C23_BatchEquivalence ==
    (m_op = "match" /\ m_ret.raised # "EncodeError")
        => m_ret = OneAtATime(articles, article_embeddings, similarity_threshold,
                              m_in, 1, <<>>)

\* A list one longer than a batch, matched question by question.
C23_Witness ==
    /\ m_op = "match"
    /\ Len(m_in) = batch_size + 1
    /\ m_ret.raised = "none"
    /\ Len(m_ret.value) = Len(m_in)
    /\ m_ret.value[batch_size + 1].question = m_in[batch_size + 1]
    /\ m_ret.value[1].similarity_score # m_ret.value[2].similarity_score

\* C24: a rebuild is atomic: when the embedding call fails in
\* index_articles the matcher keeps an article list and embeddings of one
\* and the same corpus, and no later match_questions or get_top_matches call
\* runs on an article list of one corpus with the embeddings of another.
C24_AtomicRebuild ==
    /\ (m_op = "index" /\ m_ret.raised = "EncodeError" /\ article_embeddings.set)
           => article_embeddings.rows = EmbeddingsOf(articles)
    /\ (m_op \in {"match", "top"} /\ article_embeddings.set /\ articles # <<>>)
           => article_embeddings.rows = EmbeddingsOf(articles)

\* The similarities _cosine_similarity gives the i-th question of the call.
SimilaritiesOf(i) == cosine_similarity(encode(m_in[i].text), article_embeddings.rows)

\* C26: _cosine_similarity is 1.0 for two identical non-zero vectors and 0
\* when the question vector is the zero vector, and a zero vector does not
\* keep match_questions from producing the Match of a question.
C26_CosineZeroVector ==
    (/\ m_op = "match"
     /\ ~NotIndexed(articles, article_embeddings)
     /\ m_ret.raised # "EncodeError")
        => \A i \in 1..Len(m_in) :
               /\ \A k \in 1..Len(SimilaritiesOf(i)) :
                      /\ (/\ encode(m_in[i].text) = article_embeddings.rows[k]
                          /\ Norm(encode(m_in[i].text)) # 0) => SimilaritiesOf(i)[k] = 1000
                      /\ Norm(encode(m_in[i].text)) = 0 => SimilaritiesOf(i)[k] = 0
               /\ (Len(m_in) = 1 /\ Norm(encode(m_in[i].text)) = 0)
                      => (m_ret.raised = "none" /\ Len(m_ret.value) = 1)

(***************************************************************************)
(* Claims about the gap analyzer                                           *)
(***************************************************************************)
PoorMatches == {i \in 1..Len(g_matches) : ~g_matches[i].is_good_match}

\* The number of poor matches, and of returned gaps, that are about q.
PoorWith(q) == Cardinality({i \in PoorMatches : g_matches[i].question = q})

GapsWith(q) ==
    Cardinality({i \in 1..Len(g_ret.value) : g_ret.value[i].question = q})

\* C9: identify_gaps returns one gap for every match that is not good and
\* none for a good one: the questions of the gaps are a permutation of
\* the questions of the not-good matches.
C9_OneGapPerPoorMatch ==
    g_op = "identify_gaps" =>
        /\ g_ret.raised = "none"
        /\ \A q \in GapQuestions : GapsWith(q) = PoorWith(q)

\* The priority in ten-thousandths with an unweighted frequency term, and
\* with the frequency term weighted by 0.2.
UnweightedPriority(u, thr, sim, f) ==
    Min(10000, 4 * u + 4 * (thr - sim) + Min(1000 * f, 2000))

WeightedPriority(u, thr, sim, f) ==
    Min(10000, 4 * u + 4 * (thr - sim) + Min(200 * f, 400))

\* The returned gaps and the poor matches carry the same (question,
\* priority) pairs, each as often, when the priority of a match is P.
PrioritiesAre(P(_, _, _, _)) ==
    LET of(m) == P(m.question.urgency_score, g_threshold,
                   m.similarity_score, m.question.frequency)
    IN  /\ Len(g_ret.value) = Cardinality(PoorMatches)
        /\ \A q \in GapQuestions : \A sim \in GapSimilarities :
            Cardinality({i \in 1..Len(g_ret.value) :
                /\ g_ret.value[i].question = q
                /\ g_ret.value[i].priority_score =
                       P(q.urgency_score, g_threshold, sim, q.frequency)})
            = Cardinality({i \in PoorMatches :
                /\ g_matches[i].question = q
                /\ of(g_matches[i]) =
                       P(q.urgency_score, g_threshold, sim, q.frequency)})

ClampedPriority(u, thr, sim, f) ==
    Min(10000, 4 * u + 4 * (thr - sim) + (IF f = 1 THEN 1000 ELSE 2000))

\* C27: the frequency term of the priority sum is min(frequency/10, 0.2),
\* 0.1 for frequency 1 and 0.2 for every larger frequency, and the sum is
\* capped at 1.0 before it is stored as priority_score.
C27_BothClamps ==
    (g_op = "identify_gaps" /\ g_ret.raised = "none") =>
        PrioritiesAre(ClampedPriority)

\* A gap of frequency 3 whose term is 0.2, and a gap whose sum 1.1 is
\* stored as 1.0.
C27_Witness ==
    /\ g_op = "identify_gaps"
    /\ g_ret.raised = "none"
    /\ g_threshold = 1500
    /\ Len(g_matches) = 2
    /\ Len(g_ret.value) = 2
    /\ \E i, j \in 1..2 :
          /\ g_matches[i].question.frequency = 3
          /\ g_matches[i].similarity_score = 900
          /\ g_matches[j].question.urgency_score = 1000
          /\ g_matches[j].question.frequency = 1
          /\ g_matches[j].similarity_score = 0
          /\ g_ret.value[1].priority_score = 10000
          /\ g_ret.value[2].priority_score = 6400

\* The returned gaps that keep match m, and those without a best match.
GapsKeeping(m) == {i \in 1..Len(g_ret.value) : g_ret.value[i].best_match = <<m>>}

GapsWithoutMatch(q) ==
    {i \in 1..Len(g_ret.value) :
        g_ret.value[i].question = q /\ g_ret.value[i].best_match = <<>>}

\* C28: the best_match of a gap is the Match it comes from exactly when the
\* similarity of that Match is above 0.5, and is absent at 0.5 and below,
\* whatever the threshold of the analyzer.
C28_BestMatchKept ==
    (g_op = "identify_gaps" /\ g_ret.raised = "none") =>
        /\ \A i \in 1..Len(g_ret.value) :
               g_ret.value[i].best_match # <<>> =>
                   /\ g_ret.value[i].best_match[1].question = g_ret.value[i].question
                   /\ g_ret.value[i].best_match[1].similarity_score > 500
        /\ \A j \in PoorMatches :
               g_matches[j].similarity_score > 500 =>
                   Cardinality(GapsKeeping(g_matches[j]))
                       = Cardinality({k \in PoorMatches : g_matches[k] = g_matches[j]})
        /\ \A q \in GapQuestions :
               Cardinality(GapsWithoutMatch(q))
                   = Cardinality({k \in PoorMatches :
                         g_matches[k].question = q /\ g_matches[k].similarity_score <= 500})

\* A gap of similarity 0.9 under a threshold of 0.75 keeps its Match, a gap
\* of similarity exactly 0.5 has none.
C28_Witness ==
    /\ g_op = "identify_gaps"
    /\ g_ret.raised = "none"
    /\ g_threshold = 750
    /\ Len(g_ret.value) = 2
    /\ \E i, j \in 1..2 :
          /\ g_matches[i].similarity_score = 900
          /\ g_matches[j].similarity_score = 500
          /\ GapsKeeping(g_matches[i]) # {}
          /\ GapsWithoutMatch(g_matches[j].question) # {}

\* C11: for every urgency, frequency, similarity and analyzer threshold in
\* range, the threshold set independently of the matcher's, the priority
\* identify_gaps computes for a not-good match lies in [0, 1] and the
\* KnowledgeGap is created with it.
C11_PriorityInRange ==
    g_op = "identify_gaps" =>
        \A i \in PoorMatches :
            LET p == Min(priority(g_matches[i].question, g_threshold,
                                  g_matches[i].similarity_score), 10000)
            IN  /\ 0 <= p /\ p <= 10000
                /\ \E j \in 1..Len(g_ret.value) :
                      /\ g_ret.value[j].question = g_matches[i].question
                      /\ g_ret.value[j].priority_score = p

\* The themes with a keyword in the lower-cased text t.
HitsOf ==
    [t \in GapTexts |->
        {theme_patterns[i].theme : i \in
            {i \in 1..Len(theme_patterns) :
                \E k \in 1..Len(theme_patterns[i].keywords) :
                    Contains(lower(Chars(t)), theme_patterns[i].keywords[k])}}]

\* The number of returned gaps whose question hits theme th.
MembersOf(th) ==
    Cardinality({i \in 1..Len(g_ret.value) : th \in HitsOf[g_ret.value[i].question.text]})

\* C12: every gap identify_gaps returns has a theme: "general" when its
\* question hits no theme, otherwise a theme that hits its question and has
\* the most member gaps, counted over the whole batch, among those that hit.
C12_ThemeAssigned ==
    g_op = "identify_gaps" =>
        \A i \in 1..Len(g_ret.value) :
            LET hits == HitsOf[g_ret.value[i].question.text]
            IN  /\ Len(g_ret.value[i].theme) = 1
                /\ hits = {} => g_ret.value[i].theme[1] = "general"
                /\ hits # {} =>
                      /\ g_ret.value[i].theme[1] \in hits
                      /\ \A th \in hits :
                            MembersOf(g_ret.value[i].theme[1]) >= MembersOf(th)

\* Two gaps returned: the question that hits policy and cancellation gets
\* cancellation, which has two members in the batch, policy having one.
C12_Witness ==
    /\ g_op = "identify_gaps"
    /\ Len(g_ret.value) = 2
    /\ \E i \in 1..Len(g_ret.value) :
          /\ g_ret.value[i].question.text = "Can I cancel my policy early?"
          /\ g_ret.value[i].theme = <<"cancellation">>
          /\ MembersOf("cancellation") = 2
          /\ MembersOf("policy") = 1

\* "Can I cancel my policy early?" is the only match of the batch, its
\* best similarity below the threshold 0.75 of matcher and analyzer.
C13_Case ==
    /\ g_op = "identify_gaps"
    /\ g_threshold = 750
    /\ Len(g_matches) = 1
    /\ g_matches[1].question.text = "Can I cancel my policy early?"
    /\ g_matches[1].similarity_score < 750

\* The match of C13_Case is not good and gives one gap of theme th.
C13_Outcome(th) ==
    /\ ~g_matches[1].is_good_match
    /\ g_ret.raised = "none"
    /\ Len(g_ret.value) = 1
    /\ g_ret.value[1].question = g_matches[1].question
    /\ g_ret.value[1].theme = <<th>>

\* C13 (as amended): the question "Can I cancel my policy early?", matched
\* below threshold 0.75, gets good_match = false and, the only gap of the
\* batch, the theme "policy": policy and cancellation both hit with one
\* member each, and policy comes first in theme_patterns.
C13_OnlyGapThemePolicy == C13_Case => C13_Outcome("policy")

C13_Witness == C13_Case /\ C13_Outcome("policy") /\ g_matches[1].similarity_score = 500

\* C13 (as stated): that gap has the theme "cancellation".
C13_OnlyGapThemeCancellation == C13_Case => C13_Outcome("cancellation")

\* C14: the list identify_gaps returns is in non-increasing order of
\* priority_score.
C14_SortedByPriority ==
    g_op = "identify_gaps" =>
        \A i \in 1..(Len(g_ret.value) - 1) :
            g_ret.value[i].priority_score >= g_ret.value[i + 1].priority_score

\* Two not-good matches, the second of higher priority: its gap comes first.
C14_Witness ==
    /\ g_op = "identify_gaps"
    /\ Len(g_matches) = 2
    /\ Len(g_ret.value) = 2
    /\ g_ret.value[1].question = g_matches[2].question
    /\ g_ret.value[2].question = g_matches[1].question
    /\ g_ret.value[1].priority_score > g_ret.value[2].priority_score

\* The positions of the input AnswerCandidates of source_id src.
AnswersFrom(src) == {k \in 1..Len(g_answers) : g_answers[k].source_id = src}

\* ac is the input AnswerCandidates of source_id src, in input order.
ExactlyAnswersFrom(ac, src) ==
    /\ Len(ac) = Cardinality(AnswersFrom(src))
    /\ \A k \in AnswersFrom(src) :
          ac[Cardinality({j \in AnswersFrom(src) : j <= k})] = g_answers[k]

AnswersExact ==
    \A i \in 1..Len(g_ret.value) :
        ExactlyAnswersFrom(g_ret.value[i].answer_candidates,
                           g_ret.value[i].question.source_id)

\* C15: the answer_candidates of every gap identify_gaps returns are the
\* input AnswerCandidates of the source_id of the gap's question, in input
\* order, and no other; identify_gaps modifies no AnswerCandidate.
C15_AnswersBySource ==
    [][g_op' = "identify_gaps" => (g_answers' = g_answers /\ AnswersExact')]_vars

\* Two different answers of one source come in: a gap of that source holds
\* both, in input order, and a gap of another source holds none.
C15_Witness ==
    /\ g_op = "identify_gaps"
    /\ Len(g_answers) = 2
    /\ g_answers[1] # g_answers[2]
    /\ \E i \in 1..Len(g_ret.value) : g_ret.value[i].answer_candidates = g_answers
    /\ \E i \in 1..Len(g_ret.value) : g_ret.value[i].answer_candidates = <<>>

(***************************************************************************)
(* Claims about the extractor                                              *)
(***************************************************************************)
\* A token of raw interaction text that identifies a person.
IsRaw(t) == t.k \in {"email", "policy", "name"}

NoRaw(text) == \A i \in 1..Len(text) : ~IsRaw(text[i])

\* An Optional text holds no raw token.
NoRawIn(opt) == \A i \in 1..Len(opt) : NoRaw(opt[i])

\* C3: with anonymization enabled, the prompt and the text, context and
\* source_excerpt of every Question and AnswerCandidate an extraction
\* returns hold no raw sender address, subject or turn text.
C3_OutputAnonymized ==
    (x_anonymize_enabled /\ x_op # "none") =>
        /\ \A i \in 1..Len(x_prompt) : NoRaw(x_prompt[i].text)
        /\ \A i \in 1..Len(x_ret.questions) :
              /\ NoRaw(x_ret.questions[i].text)
              /\ NoRawIn(x_ret.questions[i].context)
              /\ NoRawIn(x_ret.questions[i].source_excerpt)
        /\ \A i \in 1..Len(x_ret.answers) :
              /\ NoRaw(x_ret.answers[i].text)
              /\ NoRawIn(x_ret.answers[i].context)

\* The last call was extract_from_transcripts or extract_from_emails.
BatchCall == x_op \in {"transcripts", "emails"}

\* Interaction i gave nothing: its reply was not JSON, or building its
\* Questions and AnswerCandidates raised.
Failed(i) == ~x_responses[i].json \/ ~AllScoresValid(x_responses[i])

\* The interactions the returned value names.
ReportedIds ==
    {x_ret.questions[k].source_id : k \in 1..Len(x_ret.questions)}
    \cup {x_ret.answers[k].source_id : k \in 1..Len(x_ret.answers)}

\* C17: no interaction is lost silently: one whose extraction failed or
\* whose reply was unparseable is recorded in what the step returns to its
\* caller together with the results.
C17_NoSilentLoss ==
    BatchCall => \A i \in 1..Len(x_in) : Failed(i) => x_in[i].id \in ReportedIds

\* C18: when one item of a reply is malformed (urgency or confidence outside
\* [0, 1]) only that item is skipped: every well-formed question and answer
\* of the same interaction, and of the others of the batch, is returned.
C18_MalformedItemLocal ==
    BatchCall =>
        \A i \in 1..Len(x_in) :
            x_responses[i].json =>
                /\ \A k \in 1..Len(x_responses[i].questions) :
                      ScoreValid(x_responses[i].questions[k].score) =>
                          \E n \in 1..Len(x_ret.questions) :
                              /\ x_ret.questions[n].source_id = x_in[i].id
                              /\ x_ret.questions[n].text = x_responses[i].questions[k].text
                /\ \A k \in 1..Len(x_responses[i].answers) :
                      ScoreValid(x_responses[i].answers[k].score) =>
                          \E n \in 1..Len(x_ret.answers) :
                              /\ x_ret.answers[n].source_id = x_in[i].id
                              /\ x_ret.answers[n].text = x_responses[i].answers[k].text

(***************************************************************************)
(* Specifications: one per component, the others idle.                     *)
(***************************************************************************)
InitAnon == AnonInit /\ MatcherIdle /\ GapIdle /\ ExtractorIdle /\ WorkersInit

SpecAnon == InitAnon /\ [][AnonNext]_vars

SpecPII == InitAnon /\ [][PIINext]_vars

SpecNames == InitAnon /\ [][NamesNext]_vars

InitMatcher == MatcherInit /\ AnonInit /\ GapIdle /\ ExtractorIdle /\ WorkersInit

SpecMatch == InitMatcher /\ [][MatcherNext]_vars

SpecIndex == InitMatcher /\ [][IndexNext]_vars

InitGap == GapInit /\ AnonInit /\ MatcherIdle /\ ExtractorIdle /\ WorkersInit

SpecGap == InitGap /\ [][GapNext]_vars

InitClamp == ClampInit /\ AnonInit /\ MatcherIdle /\ ExtractorIdle /\ WorkersInit

SpecClamp == InitClamp /\ [][GapNext]_vars

InitExtract == ExtractorInit /\ AnonInit /\ MatcherIdle /\ GapIdle /\ WorkersInit

SpecExtract == InitExtract /\ [][ExtractorNext]_vars

SpecBatch == InitExtract /\ [][BatchNext]_vars

InitWorkers == WorkersInit /\ AnonInit /\ MatcherIdle /\ GapIdle /\ ExtractorIdle

SpecWorkers == InitWorkers /\ [][WorkersNext]_vars

(***************************************************************************)
(* Claims about the anonymizer                                             *)
(***************************************************************************)
Preserved(m, m2) == \A k \in DOMAIN m : k \in DOMAIN m2 /\ m2[k] = m[k]

\* Every occurrence of an original, in this call or a later one, is returned
\* as the text first returned for it.
SameAsFirst ==
    \A i \in 1..Len(text_in) :
        Referential(text_in[i]) =>
            /\ text_in[i] \in DOMAIN rendered
            /\ text_out[i] = rendered[text_in[i]]

\* The returned text carries the map's entry for an address and a name.
UsesMapEntry ==
    \A i \in 1..Len(text_in) :
        /\ MatchesEmail(text_in[i]) => text_out[i] = email_map[text_in[i]]
        /\ MatchesName(text_in[i]) => text_out[i] = Tok("nameph", name_map[text_in[i]])
        /\ MatchesPolicy(text_in[i]) => text_in[i] \in DOMAIN policy_map

\* C1: within one instance the entries of email_map, policy_map and name_map
\* are never changed or removed once written, and every occurrence of an
\* original value, in the same call or a later one, is replaced by the
\* placeholder first assigned to it.
C1_ReferentialConsistency ==
    [][/\ Preserved(email_map, email_map')
       /\ Preserved(policy_map, policy_map')
       /\ Preserved(name_map, name_map')
       /\ SameAsFirst'
       /\ UsesMapEntry']_vars

\* An address seen in an earlier call occurs twice in a later call.
C1_Witness ==
    /\ call = "text"
    /\ Len(text_in) = 2
    /\ text_in[1] = text_in[2]
    /\ text_in[1].k = "email"
    /\ text_in[1] \in known
    /\ text_out[1] = text_out[2]

\* C2: anonymize_text applied to the text it returned gives that text back
\* and adds no entry to a substitution map.
C2_Idempotent ==
    call = "again" => (text_out = text_in /\ Keys(Self) = known)

\* C19: within one call no placeholder written by an earlier stage is
\* rewritten by a later one: the policy placeholder POL-NNNN, the email
\* placeholder and the [REDACTED_*] tokens are intact in the returned text.
C19_PlaceholdersIntact ==
    call = "text" =>
        \A i \in 1..Len(text_in) :
            /\ MatchesPolicy(text_in[i]) => text_out[i] = policy_map[text_in[i]]
            /\ MatchesEmail(text_in[i]) => text_out[i] = email_map[text_in[i]]
            /\ text_in[i].k = "card" => text_out[i] = Tok("red_card", 0)
            /\ text_in[i].k = "date" => text_out[i] = Tok("red_date", 0)

\* C20: a bare four-digit year is returned unchanged, and a full calendar
\* date is replaced by the date placeholder.
C20_YearPreserved ==
    call = "text" =>
        \A i \in 1..Len(text_in) :
            /\ text_in[i].k = "year" => text_out[i] = text_in[i]
            /\ text_in[i].k \in {"date", "date4"} => text_out[i] = Tok("red_date", 0)

\* A text in which no pattern of the instance finds a match.
NoCategoryMatch(text) == \A i \in 1..Len(text) : text[i].k = "word"

StatsNotBelow(old, new) ==
    /\ new.names_anonymized >= old.names_anonymized
    /\ new.emails_anonymized >= old.emails_anonymized
    /\ new.policies_anonymized >= old.policies_anonymized

\* C21: over the calls of anonymize_text on one instance no count returned
\* by get_stats decreases or is reset, and a call on an empty text or on a
\* text without a match leaves every map and counter as it was and returns
\* the text unchanged.
C21_StatsMonotone ==
    [][/\ StatsNotBelow(get_stats(Self), get_stats(Self)')
       /\ NoCategoryMatch(text_in') =>
              /\ Self' = Self
              /\ text_out' = text_in']_vars

\* A second call, on a text without a match, on an instance whose maps hold
\* entries of the first call.
C21_Witness ==
    /\ ncalls = 2
    /\ text_in = <<Tok("word", 0)>>
    /\ text_out = text_in
    /\ get_stats(Self).emails_anonymized = 2
    /\ get_stats(Self).policies_anonymized = 0

Categories == {"email", "policy", "name"}

\* The entries one instance wrote to the map of one category, in order.
StoresOf(i, cat) == SelectSeq(stores[i], LAMBDA e : Category(e[1]) = cat)

\* What calls made one after the other leave: one store per original, the
\* k-th store of a category carrying the placeholder of counter value k,
\* and the map holding what was stored.
SeriallyAssigned(i, cat) ==
    \A k \in 1..Len(StoresOf(i, cat)) :
        /\ StoresOf(i, cat)[k][2] = PlaceholderOf(cat, k)
        /\ \A l \in 1..Len(StoresOf(i, cat)) :
               StoresOf(i, cat)[k][1] = StoresOf(i, cat)[l][1] => k = l
        /\ MapOf(instances[i], StoresOf(i, cat)[k][1])[StoresOf(i, cat)[k][1]]
               = StoresOf(i, cat)[k][2]

InjectiveMap(m) == \A x, y \in DOMAIN m : m[x] = m[y] => x = y

\* C25: every instance is used by one run only, so that under every
\* interleaving of the runs' check-then-assign steps no original is given two
\* placeholders and no placeholder is written for two originals because of
\* the interleaving: each map is what calls made one after the other write.
C25_SafeUnderSharing ==
    \A i \in Workers :
        /\ \A cat \in Categories : SeriallyAssigned(i, cat)
        /\ InjectiveMap(instances[i].email_map)
        /\ InjectiveMap(instances[i].policy_map)

\* Two runs are between the test and the store for the same original at the
\* same time, one of them having stored an entry before.
C25_Witness ==
    /\ w_pc[1] = "store"
    /\ w_pc[2] = "store"
    /\ w_match[1] = w_match[2]
    /\ Len(stores[1]) = 1

\* C29: the N-th distinct name an instance sees is given the surname at
\* position N mod 10 of placeholder_names, positions counted from 0,
\* whatever the name: "Johnson" for the first, "Smith" for the tenth,
\* "Johnson" again for the eleventh.
C29_SurnameRotation ==
    (call = "text" /\ MatchesName(text_in[1]) /\ text_in[1] \notin known) =>
        /\ name_map[text_in[1]] = (Cardinality(known) + 1) % 10
        /\ text_out = <<Tok("nameph", (Cardinality(known) + 1) % 10)>>
        /\ Cardinality(known) = 0 => Surname(text_out[1].n) = "Johnson"
        /\ Cardinality(known) = 1 => Surname(text_out[1].n) = "Williams"
        /\ Cardinality(known) = 9 => Surname(text_out[1].n) = "Smith"
        /\ Cardinality(known) = 10 => Surname(text_out[1].n) = "Johnson"

\* The eleventh distinct name, after a name was seen twice.
C29_Witness ==
    /\ call = "text"
    /\ Cardinality(known) = 10
    /\ ncalls = 12
    /\ text_in[1] \notin known
    /\ Surname(text_out[1].n) = "Johnson"

\* C30: email_map, policy_map and name_map are injective after any sequence
\* of calls, however many distinct values were seen.
C30_MapsInjective ==
    /\ InjectiveMap(email_map)
    /\ InjectiveMap(policy_map)
    /\ InjectiveMap(name_map)

====
